---- MODULE Spec2Model ----
(***************************************************************************)
(* The TicKV key-value store capsule (capsules/src/kv_store.rs): the flash *)
(* controller adapter TicKVFlashCtrl, the KVStoreDriver state machine and  *)
(* the per-client grant state, over an asynchronous page-addressed flash.  *)
(*                                                                         *)
(* An Option / OptionalCell / TakeCell holding a value is modelled as a    *)
(* set with at most one element: {} is None, {v} is Some(v).               *)
(* A Rust panic (unwrap on None, slice index out of range, unreachable!,   *)
(* panic!) halts the kernel: it sets aborted and no entry point runs       *)
(* afterwards.                                                             *)
(***************************************************************************)
EXTENDS Integers, FiniteSets, Sequences, TLC

VARIABLES
    operation,    \* KVStoreDriver.operation : "None" | "Init" | "GetKey"
    appid,        \* KVStoreDriver.appid : OptionalCell<AppId>
    state,        \* TicKVFlashCtrl.state : State
    data_buffer,  \* TicKVFlashCtrl.data_buffer : TRUE when the TakeCell holds the page
    page_data,    \* what the page buffer contains (followed under SpecData only)
    flash,        \* the Flash Device: the call issued and not yet completed
    apps,         \* Grant<App> : per-client App
    pc,           \* "new" after KVStoreDriver::new, "run" after initalise()
    aborted,      \* a panic has halted the kernel
    last          \* the entry point that ran last, its inputs and its outcome

vars == <<operation, appid, state, data_buffer, page_data, flash, apps, pc,
          aborted, last>>

---------------------------------------------------------------------------
(* Bounds *)

MaxRegion == 1
MaxAddress == 0
KeyBufLen == 1
MaxEngineCalls == 2

(* Program constants *)

RegionOffset == 1
PageSize == 1024
FlashBase == 537133056

Clients == {"A", "B"}
Regions == 0..MaxRegion
Addresses == {a * PageSize : a \in 0..MaxAddress}
KeyLens == {KeyBufLen, KeyBufLen + 1}
KeySlices == {{}, {KeyBufLen}}
ValueSlices == {{}, {"value"}}
CommandNums == 0..4
AllowNums == {0, 1}
SubscribeNums == {0}

---------------------------------------------------------------------------
(* enum State, and tickv's Result<SuccessCode, ErrorCode> *)

StateNone == [kind |-> "None", arg |-> 0]
ReadComplete(reg) == [kind |-> "ReadComplete", arg |-> reg]
WriteComplete(addr) == [kind |-> "WriteComplete", arg |-> addr]
EraseComplete(reg) == [kind |-> "EraseComplete", arg |-> reg]

Ok == [kind |-> "Ok", arg |-> 0]
ReadNotReady(reg) == [kind |-> "ReadNotReady", arg |-> reg]
WriteNotReady(addr) == [kind |-> "WriteNotReady", arg |-> addr]
EraseNotReady(reg) == [kind |-> "EraseNotReady", arg |-> reg]
ReadFail == [kind |-> "ReadFail", arg |-> 0]
WriteFail == [kind |-> "WriteFail", arg |-> 0]
KeyNotFound == [kind |-> "KeyNotFound", arg |-> 0]

NotReadyKinds == {"ReadNotReady", "WriteNotReady", "EraseNotReady"}

---------------------------------------------------------------------------
(* The Flash Device (kernel::hil::flash::Flash).  It holds at most one     *)
(* call; a call made while one is outstanding is refused, and an idle      *)
(* device may refuse too (acc = FALSE).                                    *)

FlashIdle == [kind |-> "None", page |-> 0]
NoData == [src |-> "none", page |-> 0, err |-> FALSE]
NoCall == [kind |-> "NoCall", arg |-> 0]

FlashAccepts(fl, acc) == fl.kind = "None" /\ acc

(* The context an entry point runs in: the driver, the controller, the     *)
(* device and the grant as they are when it starts, and what it has done   *)
(* so far: ret is the Engine's result, status the ReturnCode, panic a Rust *)
(* panic, issued / overlap the hardware calls made (and made while another *)
(* was outstanding), copied the page contents handed to the Engine, sched  *)
(* the clients whose callback was scheduled, opAtSched the value of        *)
(* operation when it was, unwrapNone an unwrap() of a take() that found    *)
(* the cell empty.                                                         *)
Cur ==
    [operation |-> operation, appid |-> appid, state |-> state,
     data_buffer |-> data_buffer, page_data |-> page_data, flash |-> flash,
     apps |-> apps, ret |-> NoCall, status |-> "NA", panic |-> FALSE,
     issued |-> 0, overlap |-> FALSE, copied |-> {}, calls |-> 0,
     sched |-> {}, opAtSched |-> "NA", unwrapNone |-> FALSE]

(* flash.read_page / write_page / erase_page as the adapter calls them *)
Issue(d, kind, page, acc) ==
    [d EXCEPT !.flash = IF FlashAccepts(d.flash, acc)
                        THEN [kind |-> kind, page |-> page] ELSE @,
              !.issued = @ + 1,
              !.overlap = @ \/ d.flash.kind # "None"]

WritePageOf(address) == (FlashBase + address) \div PageSize

---------------------------------------------------------------------------
(* TicKVFlashCtrl: the FlashController implementation *)

ReadRegionAnyRegion(d, region_number, acc) ==
    IF ~d.data_buffer
    THEN [d EXCEPT !.panic = TRUE, !.unwrapNone = TRUE]
    ELSE IF d.state.kind = "ReadComplete"
    THEN [d EXCEPT !.state = StateNone, !.ret = Ok,
                   !.copied = @ \cup {d.page_data}]
    ELSE LET i == Issue([d EXCEPT !.data_buffer = FALSE], "read",
                        RegionOffset + region_number, acc)
         IN  [i EXCEPT !.ret = IF FlashAccepts(d.flash, acc)
                               THEN ReadNotReady(region_number) ELSE ReadFail]

ReadRegion(d, region_number, acc) ==
    IF ~d.data_buffer
    THEN [d EXCEPT !.panic = TRUE, !.unwrapNone = TRUE]
    ELSE IF d.state.kind = "ReadComplete" /\ d.state.arg = region_number
    THEN [d EXCEPT !.state = StateNone, !.ret = Ok,
                   !.copied = @ \cup {d.page_data}]
    ELSE LET i == Issue([d EXCEPT !.data_buffer = FALSE], "read",
                        RegionOffset + region_number, acc)
         IN  [i EXCEPT !.ret = IF FlashAccepts(d.flash, acc)
                               THEN ReadNotReady(region_number) ELSE ReadFail]

WriteAlwaysNotReady(d, address, acc) ==
    IF ~d.data_buffer
    THEN [d EXCEPT !.panic = TRUE, !.unwrapNone = TRUE]
    ELSE LET w == [d EXCEPT !.data_buffer = FALSE,
                            !.page_data = [src |-> "write",
                                           page |-> WritePageOf(address),
                                           err |-> FALSE]]
             i == Issue(w, "write", WritePageOf(address), acc)
         IN  [i EXCEPT !.ret = WriteNotReady(address)]

Write(d, address, acc) ==
    IF ~d.data_buffer
    THEN [d EXCEPT !.panic = TRUE, !.unwrapNone = TRUE]
    ELSE LET w == [d EXCEPT !.data_buffer = FALSE,
                            !.page_data = [src |-> "write",
                                           page |-> WritePageOf(address),
                                           err |-> FALSE]]
             i == Issue(w, "write", WritePageOf(address), acc)
         IN  [i EXCEPT !.ret = IF FlashAccepts(d.flash, acc)
                               THEN WriteNotReady(address) ELSE WriteFail]

EraseRegion(d, region_number, acc) ==
    [Issue(d, "erase", RegionOffset + region_number, acc)
        EXCEPT !.ret = EraseNotReady(region_number)]

---------------------------------------------------------------------------
(* The Key-Value Engine (tickv::AsyncTicKV), a black box: an entry point   *)
(* makes flash-controller calls one after another, returns the first error *)
(* a call gives it, and otherwise finishes with Ok or with an error of its *)
(* own.                                                                    *)

EngineCalls ==
    {[op |-> "read", arg |-> r] : r \in Regions}
        \cup {[op |-> "write", arg |-> a] : a \in Addresses}
        \cup {[op |-> "erase", arg |-> r] : r \in Regions}

ControllerCall(d, c, acc) ==
    LET r == CASE c.op = "read" -> ReadRegion(d, c.arg, acc)
               [] c.op = "write" -> Write(d, c.arg, acc)
               [] OTHER -> EraseRegion(d, c.arg, acc)
    IN  [r EXCEPT !.calls = @ + 1]

RECURSIVE EngineFrom(_, _, _)
EngineFrom(d, acc, n) ==
    {[d EXCEPT !.ret = Ok], [d EXCEPT !.ret = KeyNotFound]}
        \cup IF n = 0 THEN {}
             ELSE UNION {LET r == ControllerCall(d, c, acc)
                         IN  IF r.panic \/ r.ret.kind # "Ok"
                             THEN {r}
                             ELSE EngineFrom(r, acc, n - 1)
                         : c \in EngineCalls}

EngineRun(d, acc) == EngineFrom(d, acc, MaxEngineCalls)

---------------------------------------------------------------------------
(* KVStoreDriver *)

(* the match of initalise() on the Engine's result *)
InitaliseState(ret) ==
    CASE ret.kind = "ReadNotReady" -> ReadComplete(ret.arg)
      [] ret.kind = "EraseNotReady" -> EraseComplete(ret.arg)
      [] OTHER -> StateNone

InitaliseOut(d, acc) ==
    {IF x.panic THEN x
     ELSE [x EXCEPT !.state = InitaliseState(x.ret), !.operation = "Init"]
     : x \in EngineRun(d, acc)}

UpdateState(d) ==
    CASE d.ret.kind = "ReadNotReady" ->
            [d EXCEPT !.state = ReadComplete(d.ret.arg)]
      [] d.ret.kind = "EraseNotReady" ->
            [d EXCEPT !.state = EraseComplete(d.ret.arg)]
      [] d.ret.kind = "WriteNotReady" ->
            [d EXCEPT !.state = WriteComplete(d.ret.arg)]
      [] d.ret.kind = "Ok" ->
            [d EXCEPT !.operation = "None", !.state = StateNone]
      [] OTHER -> [d EXCEPT !.panic = TRUE]

(* an Engine entry point followed by update_state(ret) *)
RunAndUpdate(d, acc) ==
    {IF x.panic THEN x ELSE UpdateState(x) : x \in EngineRun(d, acc)}

ScheduleOnEveryClient(ids, grant) == {id \in DOMAIN grant : grant[id].callback}

(* app.callback.map(|cb| cb.schedule(0, 0, 0)) inside appid.map *)
ScheduleOn(ids, grant) == {id \in ids : grant[id].callback}

Schedule(d) ==
    LET s == ScheduleOn(d.appid, d.apps)
    IN  [d EXCEPT !.sched = s,
                  !.opAtSched = IF s = {} THEN @ ELSE d.operation]

(* read_complete, Operation::GetKey arm *)
GetKeyComplete(d, acc) ==
    IF d.appid = {} THEN {d}
    ELSE LET id == CHOOSE i \in d.appid : TRUE
             app == d.apps[id]
         IN  IF app.key = {} THEN {d}
             ELSE IF app.value = {}
             THEN {[d EXCEPT !.apps[id].key = {}]}
             ELSE LET t == [d EXCEPT !.apps[id].key = {},
                                     !.apps[id].value = {},
                                     !.apps[id].key_len = {}]
                  IN  IF app.key_len = {}
                      THEN {[t EXCEPT !.panic = TRUE, !.unwrapNone = TRUE]}
                      ELSE {IF u.panic THEN u
                            ELSE LET s == IF u.ret.kind = "Ok"
                                          THEN [Schedule(u) EXCEPT
                                                  !.operation = "None"]
                                          ELSE u
                                 IN  [s EXCEPT !.apps[id].key_len = app.key_len,
                                               !.apps[id].value = app.value,
                                               !.apps[id].key = app.key]
                            : u \in RunAndUpdate(t, acc)}

(* the device hands the page back, with what it read into it; error is    *)
(* the flash::Error of the notification (TRUE: the hardware call failed)   *)
PageReturned(d, error) ==
    [d EXCEPT !.data_buffer = TRUE, !.flash = FlashIdle,
              !.page_data = IF d.flash.kind = "read"
                            THEN [src |-> "read", page |-> d.flash.page,
                                  err |-> error]
                            ELSE @]

ReadCompleteOut(d0, error, acc) ==
    LET d == PageReturned(d0, error)
    IN  CASE d.operation = "Init" ->
                {IF u.panic \/ u.ret.kind # "Ok" THEN u
                 ELSE [u EXCEPT !.operation = "None"]
                 : u \in RunAndUpdate(d, acc)}
          [] d.operation = "GetKey" -> GetKeyComplete(d, acc)
          [] OTHER -> {[d EXCEPT !.panic = TRUE]}

WriteCompleteOut(d0, error) ==
    LET d == [PageReturned(d0, error) EXCEPT !.state = StateNone]
    IN  IF d.operation = "Init"
        THEN {[d EXCEPT !.operation = "None"]}
        ELSE {[d EXCEPT !.panic = TRUE]}

EraseCompleteOut(d0, error, acc) ==
    LET d == [d0 EXCEPT !.flash = FlashIdle]
    IN  IF d.operation = "Init"
        THEN RunAndUpdate(d, acc)
        ELSE {[d EXCEPT !.panic = TRUE]}

---------------------------------------------------------------------------
(* Driver for KVStoreDriver: allow, subscribe, command *)

AllowOut(d, c, allow_num, slice) ==
    CASE allow_num = 0 ->
            [d EXCEPT !.apps[c].key = slice, !.status = "SUCCESS"]
      [] allow_num = 1 ->
            [d EXCEPT !.apps[c].value = slice, !.status = "SUCCESS"]
      [] OTHER -> [d EXCEPT !.status = "ENOSUPPORT"]

SubscribeOut(d, c, subscribe_num, callback) ==
    IF subscribe_num = 0
    THEN [d EXCEPT !.apps[c].callback = callback, !.status = "SUCCESS"]
    ELSE [d EXCEPT !.status = "ENOSUPPORT"]

StubStatusAcceptsAll(command_num) == "SUCCESS"

(* the arms of command other than 1 *)
StubStatus(command_num) ==
    IF command_num \in {0, 2, 3} THEN "SUCCESS" ELSE "ENOSUPPORT"

(* &key.as_ref()[0..key_len] *)
SliceInBounds(key, key_len) == \A n \in key : key_len <= n

MissingBufferKeyLost(d, c) ==
    [d EXCEPT !.apps[c].key = {}, !.status = "EBUSY"]

(* get key when app.key or app.value is None: what was taken is put back *)
MissingBuffer(d, c) == [d EXCEPT !.status = "EBUSY"]

GetKeyCommand(d, c, key_len, acc) ==
    LET app == d.apps[c]
    IN  IF app.key = {} \/ app.value = {}
        THEN {MissingBuffer(d, c)}
        ELSE LET t == [d EXCEPT !.apps[c].key = {}, !.apps[c].value = {},
                                !.appid = {c}, !.operation = "GetKey",
                                !.apps[c].key_len = {key_len}]
             IN  IF ~SliceInBounds(app.key, key_len)
                 THEN {[t EXCEPT !.panic = TRUE]}
                 ELSE {IF u.panic THEN u
                       ELSE [u EXCEPT !.apps[c].value = app.value,
                                      !.apps[c].key = app.key,
                                      !.status = "SUCCESS"]
                       : u \in RunAndUpdate(t, acc)}

CommandOut(d, c, command_num, key_len, acc) ==
    IF command_num = 1
    THEN GetKeyCommand(d, c, key_len, acc)
    ELSE {[d EXCEPT !.status = StubStatus(command_num)]}

---------------------------------------------------------------------------
(* The state machine *)

NewApp == [key |-> {}, value |-> {}, key_len |-> {}, callback |-> FALSE]
NoEntry ==
    [ep |-> "new", client |-> "", status |-> "NA", eng |-> "NoCall",
     overlap |-> FALSE, sched |-> {}, opAtSched |-> "NA", hit |-> FALSE]

Init ==
    /\ operation = "None"
    /\ appid = {}
    /\ state = StateNone
    /\ data_buffer = TRUE
    /\ page_data = NoData
    /\ flash = FlashIdle
    /\ apps = [c \in Clients |-> NewApp]
    /\ pc = "new"
    /\ aborted = FALSE
    /\ last = NoEntry

(* Entry point ep has run to its end (or to its panic) with outcome o;     *)
(* client is the caller of a get-by-key command, "" for the other entries; *)
(* hit records that read_region copied the page buffer out to the Engine.  *)
(* The bytes of the page buffer are read by the Engine alone: they are     *)
(* followed when track is TRUE, and left out of the state otherwise.       *)
Apply(o, ep, client, track) ==
    /\ operation' = o.operation
    /\ appid' = o.appid
    /\ state' = o.state
    /\ data_buffer' = o.data_buffer
    /\ page_data' = IF track THEN o.page_data ELSE NoData
    /\ flash' = o.flash
    /\ apps' = o.apps
    /\ pc' = "run"
    /\ aborted' = o.panic
    /\ last' = [ep |-> ep, client |-> client,
                status |-> IF o.panic THEN "PANIC" ELSE o.status,
                eng |-> o.ret.kind, overlap |-> o.overlap,
                sched |-> o.sched,
                opAtSched |-> o.opAtSched,
                hit |-> o.copied # {}]

Running == pc = "run" /\ ~aborted

(* every outcome the entry point can have, over what the device answers *)
InitaliseOuts == UNION {InitaliseOut(Cur, acc) : acc \in BOOLEAN}
ReadCompleteOuts ==
    UNION {ReadCompleteOut(Cur, error, acc) : error \in BOOLEAN, acc \in BOOLEAN}
WriteCompleteOuts == UNION {WriteCompleteOut(Cur, error) : error \in BOOLEAN}
EraseCompleteOuts ==
    UNION {EraseCompleteOut(Cur, error, acc) : error \in BOOLEAN, acc \in BOOLEAN}
GetKeyOuts(c) ==
    UNION {CommandOut(Cur, c, 1, key_len, acc) :
              key_len \in KeyLens, acc \in BOOLEAN}
StubOuts(c, n) ==
    UNION {CommandOut(Cur, c, n, key_len, acc) :
              key_len \in KeyLens, acc \in BOOLEAN}

Initalise(track) ==
    /\ pc = "new" /\ ~aborted
    /\ \E o \in InitaliseOuts : Apply(o, "initalise", "", track)

ReadCompleted(track) ==
    /\ Running /\ flash.kind = "read"
    /\ \E o \in ReadCompleteOuts : Apply(o, "read_complete", "", track)

WriteCompleted(track) ==
    /\ Running /\ flash.kind = "write"
    /\ \E o \in WriteCompleteOuts : Apply(o, "write_complete", "", track)

EraseCompleted(track) ==
    /\ Running /\ flash.kind = "erase"
    /\ \E o \in EraseCompleteOuts : Apply(o, "erase_complete", "", track)

Allow(track) ==
    /\ Running
    /\ \E c \in Clients, n \in AllowNums :
          \E slice \in (IF n = 1 THEN ValueSlices ELSE KeySlices) :
             Apply(AllowOut(Cur, c, n, slice), "allow", "", track)

Subscribe(track) ==
    /\ Running
    /\ \E c \in Clients, n \in SubscribeNums, cb \in BOOLEAN :
          Apply(SubscribeOut(Cur, c, n, cb), "subscribe", "", track)

Command(track) ==
    /\ Running
    /\ \E c \in Clients, n \in CommandNums :
          IF n = 1
          THEN \E o \in GetKeyOuts(c) : Apply(o, "command", c, track)
          ELSE \E o \in StubOuts(c, n) : Apply(o, "command", "", track)

Next ==
    \/ Initalise(FALSE)
    \/ ReadCompleted(FALSE)
    \/ WriteCompleted(FALSE)
    \/ EraseCompleted(FALSE)
    \/ Allow(FALSE)
    \/ Subscribe(FALSE)
    \/ Command(FALSE)

Spec == Init /\ [][Next]_vars

(* the same entry points, with the contents of the page buffer followed *)
NextData ==
    \/ Initalise(TRUE)
    \/ ReadCompleted(TRUE)
    \/ WriteCompleted(TRUE)
    \/ EraseCompleted(TRUE)
    \/ Allow(TRUE)
    \/ Subscribe(TRUE)
    \/ Command(TRUE)

SpecData == Init /\ [][NextData]_vars

TypeOK ==
    /\ operation \in {"None", "Init", "GetKey"}
    /\ appid \in {{}} \cup {{c} : c \in Clients}
    /\ state.kind \in {"None", "ReadComplete", "WriteComplete", "EraseComplete"}
    /\ flash.kind \in {"None", "read", "write", "erase"}
    /\ data_buffer \in BOOLEAN
    /\ aborted \in BOOLEAN
    /\ last.status \in {"NA", "SUCCESS", "EBUSY", "ENOSUPPORT", "PANIC"}

---------------------------------------------------------------------------
(* Properties *)

HoldsPage(fl) == fl.kind \in {"read", "write"}

(* C1: whenever an operation is in flight (operation is Init or GetKey), a *)
(* get-by-key command from any client returns EBUSY, does not abort, and   *)
(* leaves operation, appid, the controller state and the device as they    *)
(* were, issuing no hardware call.                                         *)
C1_BusyWhileInFlight ==
    (Running /\ operation # "None") =>
        \A c \in Clients : \A o \in GetKeyOuts(c) :
            /\ ~o.panic
            /\ o.status = "EBUSY"
            /\ o.operation = operation
            /\ o.appid = appid
            /\ o.state = state
            /\ o.flash = flash
            /\ o.issued = 0

(* C2: no entry point issues read_page, write_page or erase_page while an  *)
(* earlier call is still outstanding at the device.                        *)
C2_NoOverlappingCall == ~last.overlap

(* C3: a get-by-key command that returned SUCCESS and whose operation is   *)
(* already retired (operation = None: the Engine finished inside the       *)
(* command) has had its callback scheduled.                                *)
C3_CallbackOncePerAccepted ==
    (last.ep = "command" /\ last.client # "" /\ last.status = "SUCCESS"
        /\ operation = "None")
        => last.sched = {last.client}

(* C4: the page buffer is held by exactly one of the device (a read or a   *)
(* write is outstanding) and the controller.                               *)
C4_OneHolder == ~aborted => (data_buffer <=> ~HoldsPage(flash))

(* C5: between entry points, state is non-None exactly when the device has *)
(* a call outstanding, and then names the kind and target of that call.    *)
C5_PendingMatchesOutstanding ==
    Running =>
        /\ (state.kind = "None") <=> (flash.kind = "None")
        /\ state.kind = "ReadComplete" =>
              flash = [kind |-> "read", page |-> RegionOffset + state.arg]
        /\ state.kind = "WriteComplete" =>
              flash = [kind |-> "write", page |-> WritePageOf(state.arg)]
        /\ state.kind = "EraseComplete" =>
              flash = [kind |-> "erase", page |-> RegionOffset + state.arg]

(* C6: in read_complete with operation = GetKey, when the continuation     *)
(* returns Ok the handler leaves operation = None, schedules the callback  *)
(* of the recorded owner (appid) and of no other client, and operation is  *)
(* already None when it schedules; when the continuation returns a         *)
(* NotReady outcome it schedules nothing and operation stays GetKey.       *)
C6_CallbackOnOwnerAfterReset ==
    (Running /\ flash.kind = "read" /\ operation = "GetKey") =>
        \A o \in ReadCompleteOuts :
            ~o.panic =>
                /\ o.ret.kind = "Ok" =>
                      /\ o.operation = "None"
                      /\ o.sched = {id \in appid : apps[id].callback}
                      /\ o.sched # {} => o.opAtSched = "None"
                /\ o.ret.kind \in NotReadyKinds =>
                      /\ o.sched = {}
                      /\ o.operation = "GetKey"
                      /\ o.appid = appid

C6_Witness ==
    /\ last.ep = "read_complete"
    /\ last.eng = "Ok"
    /\ last.sched # {}
    /\ last.sched = appid
    /\ last.opAtSched = "None"
    /\ operation = "None"
    /\ \E c \in Clients \ appid : apps[c].callback

(* C7: once operation is non-None, no command, allow or subscribe changes  *)
(* it.                                                                     *)
C7_OnlyCompletionRetires ==
    [][(operation # "None"
            /\ last'.ep \in {"command", "allow", "subscribe"})
          => operation' = operation]_vars

(* C8: a get-by-key whose key_len exceeds the length of the registered key *)
(* buffer is rejected with a status: no abort, and operation, appid and    *)
(* the controller state stay as they were.                                 *)
C8_OversizeKeyLenRejected ==
    Running =>
        \A c \in Clients, key_len \in KeyLens, acc \in BOOLEAN :
            (\E n \in apps[c].key : key_len > n) =>
                \A o \in CommandOut(Cur, c, 1, key_len, acc) :
                    /\ ~o.panic
                    /\ o.status \in {"EBUSY", "FAIL", "EINVAL", "ESIZE"}
                    /\ o.operation = operation
                    /\ o.appid = appid
                    /\ o.state = state

(* C9: a command with an unknown number returns ENOSUPPORT and commands 0, *)
(* 2 and 3 return SUCCESS; none of them changes operation, the controller, *)
(* appid, any client's App or the device, and none issues a hardware call. *)
C9_StubsAndUnknownChangeNothing ==
    ~aborted =>
        \A c \in Clients, n \in CommandNums \ {1} : \A o \in StubOuts(c, n) :
            /\ ~o.panic
            /\ o.status = IF n \in {0, 2, 3} THEN "SUCCESS" ELSE "ENOSUPPORT"
            /\ o.operation = operation
            /\ o.appid = appid
            /\ o.state = state
            /\ o.data_buffer = data_buffer
            /\ o.apps = apps
            /\ o.flash = flash
            /\ o.issued = 0

C9_Witness ==
    /\ last.ep = "command"
    /\ last.client = ""
    /\ last.status = "ENOSUPPORT"
    /\ operation = "GetKey"
    /\ flash.kind = "read"
    /\ ~aborted

MissingABuffer(c) == apps[c].key = {} \/ apps[c].value = {}

SameBuffers(a, b) == a.key = b.key /\ a.value = b.value

(* C11: a completion handler or a get-by-key command that returns leaves   *)
(* every client's key and value buffer in its slot as it found them,       *)
(* whichever of the two the owner has registered at that moment.           *)
C11_BuffersPutBack ==
    Running =>
        /\ flash.kind = "read" =>
              \A o \in ReadCompleteOuts :
                  ~o.panic => \A c \in Clients : SameBuffers(o.apps[c], apps[c])
        /\ \A c \in Clients : \A o \in GetKeyOuts(c) :
              ~o.panic => \A x \in Clients : SameBuffers(o.apps[x], apps[x])

(* C12: a completion notification whose flash::Error reports a hardware    *)
(* failure is not taken as success: read_region hands none of the page     *)
(* returned by the failed read to the Engine, and the handler does not     *)
(* retire the operation (operation = None without abort) on it.            *)
C12_HardwareFailurePropagated ==
    Running =>
        /\ flash.kind = "read" =>
              \A acc \in BOOLEAN : \A o \in ReadCompleteOut(Cur, TRUE, acc) :
                  /\ \A x \in o.copied : ~x.err
                  /\ ~o.panic => o.operation # "None"
        /\ flash.kind = "write" =>
              \A o \in WriteCompleteOut(Cur, TRUE) :
                  ~o.panic => o.operation # "None"
        /\ flash.kind = "erase" =>
              \A acc \in BOOLEAN : \A o \in EraseCompleteOut(Cur, TRUE, acc) :
                  ~o.panic => o.operation # "None"

(* the handler has entered the Engine (continue_operation, get_key) *)
Routed(o) == o.ret # NoCall \/ o.calls > 0

(* the Pending State that records a NotReady outcome *)
PendingOf(ret) ==
    CASE ret.kind = "ReadNotReady" -> ReadComplete(ret.arg)
      [] ret.kind = "WriteNotReady" -> WriteComplete(ret.arg)
      [] ret.kind = "EraseNotReady" -> EraseComplete(ret.arg)
      [] OTHER -> StateNone

(* C13: with operation = Init, a read, write or erase completion enters    *)
(* the Engine's continuation; if the handler returns, operation is None    *)
(* exactly when the continuation returned Ok, and on a NotReady outcome    *)
(* state records it and operation stays Init.                              *)
C13_InitCompletionContinues ==
    (Running /\ operation = "Init") =>
        LET Continued(o) ==
                /\ Routed(o)
                /\ ~o.panic =>
                      /\ o.operation = "None" <=> o.ret.kind = "Ok"
                      /\ o.ret.kind \in NotReadyKinds =>
                            o.state = PendingOf(o.ret) /\ o.operation = "Init"
        IN  /\ flash.kind = "read" => \A o \in ReadCompleteOuts : Continued(o)
            /\ flash.kind = "write" => \A o \in WriteCompleteOuts : Continued(o)
            /\ flash.kind = "erase" => \A o \in EraseCompleteOuts : Continued(o)

(* C14: with operation = GetKey, a read, write or erase completion enters  *)
(* the Engine's continuation and does not hit unreachable!(); on a further *)
(* NotReady outcome state records it, operation stays GetKey and appid is  *)
(* unchanged.                                                              *)
C14_GetKeyCompletionContinues ==
    (Running /\ operation = "GetKey") =>
        LET Continued(o) ==
                /\ Routed(o)
                /\ (~o.panic /\ o.ret.kind \in NotReadyKinds) =>
                      /\ o.state = PendingOf(o.ret)
                      /\ o.operation = "GetKey"
                      /\ o.appid = appid
        IN  /\ flash.kind = "read" => \A o \in ReadCompleteOuts : Continued(o)
            /\ flash.kind = "write" => \A o \in WriteCompleteOuts : Continued(o)
            /\ flash.kind = "erase" => \A o \in EraseCompleteOuts : Continued(o)

(* C15: the driver is constructed with operation = None and state = None;  *)
(* when initalise() returns with a NotReady outcome of the Engine,         *)
(* operation is Init and state records that outcome, and operation is Init *)
(* after initalise() only with a hardware call outstanding.                *)
C15_InitaliseRecordsPending ==
    (pc = "new" /\ ~aborted) =>
        /\ operation = "None"
        /\ state = StateNone
        /\ \A o \in InitaliseOuts :
              ~o.panic =>
                  /\ o.ret.kind \in NotReadyKinds =>
                        o.operation = "Init" /\ o.state = PendingOf(o.ret)
                  /\ o.operation = "Init" => o.flash.kind # "None"

(* the Engine's errors that are no NotReady outcome *)
EngineErrorKinds == {"ReadFail", "WriteFail", "KeyNotFound"}

(* C16: whichever entry point called the Engine (initalise, get_key,       *)
(* continue_operation), an error that is no NotReady outcome aborts.       *)
C16_EngineErrorIsFatal ==
    ~aborted =>
        LET Fatal(o) == o.ret.kind \in EngineErrorKinds => o.panic
        IN  /\ pc = "new" => \A o \in InitaliseOuts : Fatal(o)
            /\ (Running /\ flash.kind = "read") =>
                  \A o \in ReadCompleteOuts : Fatal(o)
            /\ (Running /\ flash.kind = "write") =>
                  \A o \in WriteCompleteOuts : Fatal(o)
            /\ (Running /\ flash.kind = "erase") =>
                  \A o \in EraseCompleteOuts : Fatal(o)
            /\ Running => \A c \in Clients : \A o \in GetKeyOuts(c) : Fatal(o)

(* C17: the Flash Device never has a completion to deliver while           *)
(* operation = None, so no handler runs in that state; one that did would  *)
(* abort without entering the Engine.                                      *)
C17_NoCompletionWhileIdle ==
    (Running /\ flash.kind # "None") =>
        /\ operation # "None"
        /\ operation = "None" =>
              \A o \in ReadCompleteOuts \cup WriteCompleteOuts
                        \cup EraseCompleteOuts : o.panic /\ ~Routed(o)

(* the contexts in which an Engine entry point starts: initalise and the   *)
(* get-by-key command find the controller as it is, read_complete has put  *)
(* the page back, erase_complete finds the device idle                     *)
EngineEntryContexts ==
    {Cur}
        \cup (IF flash.kind = "read"
              THEN {PageReturned(Cur, error) : error \in BOOLEAN} ELSE {})
        \cup (IF flash.kind = "erase"
              THEN {[Cur EXCEPT !.flash = FlashIdle]} ELSE {})

(* the data buffer holds what a completed hardware read fetched for the    *)
(* region                                                                  *)
Fetched(d, region_number) ==
    /\ d.data_buffer
    /\ d.page_data.src = "read"
    /\ d.page_data.page = RegionOffset + region_number

C20_NoTakeFromEmpty ==
    ~aborted =>
        /\ pc = "new" => \A o \in InitaliseOuts : ~o.unwrapNone
        /\ (Running /\ flash.kind = "read") =>
              \A o \in ReadCompleteOuts : ~o.unwrapNone
        /\ (Running /\ flash.kind = "erase") =>
              \A o \in EraseCompleteOuts : ~o.unwrapNone
        /\ Running => \A c \in Clients : \A o \in GetKeyOuts(c) : ~o.unwrapNone

====
